---- MODULE Spec2Model ----
(***************************************************************************)
(* Model of parquet2jsonl.py: the recursive value converter                *)
(* convert_arrow_value_to_python, the per-file emitter                     *)
(* convert_parquet_to_jsonl and the batch driver convert_all_parquet_files.*)
(*                                                                         *)
(* Values are records tagged with the Python type the code dispatches on   *)
(* (field t).  PyArrow objects carry the data their accessors return:      *)
(*   *Scalar     v                as_py() is modelled by as_py             *)
(*   Array       v  (scalars)     len(), value[i], iteration               *)
(*   MapArray    keys, items      the child arrays behind .keys / .items   *)
(*   ListArray   v  (scalars)     to_pylist()                              *)
(*   StructArray fields           <<name, value.field(name)>> per field    *)
(* A raised exception is the value [t |-> "raise", exc, msg].              *)
(***************************************************************************)
EXTENDS Integers, Sequences, FiniteSets, TLC

VARIABLES
    value,          \* argument of the convert_arrow_value_to_python call
    result,         \* what that call returned or raised
    json_line,      \* json.dumps of the returned object
    npc,            \* position of the stand-alone converter run
    pc,             \* position of the batch driver
    input_dir,      \* the *.parquet files of the input directory, by number
    parquet_files,  \* sorted(input_dir.glob("*.parquet")), as file numbers
    idx,            \* index in parquet_files of the file being converted
    table,          \* the table read from the current file
    i,              \* row index of the emitter's loop
    sinks,          \* contents of the output files: file number -> file
    rows,           \* the driver's rows, what the last conversion returned
    total_rows,     \* the driver's total_rows
    stdout,         \* what print() wrote to standard output
    stderr          \* what print(..., file=sys.stderr) wrote

nvars == <<value, result, json_line, npc>>
dvars == <<pc, input_dir, parquet_files, idx, table, i, sinks, rows, total_rows, stdout, stderr>>
vars == <<value, result, json_line, npc, pc, input_dir, parquet_files, idx, table, i,
          sinks, rows, total_rows, stdout, stderr>>

(***************************************************************************)
(* Bounds of the model.                                                    *)
(***************************************************************************)
MaxLen == 2      \* longest key / item / element / field sequence of an input
MaxFiles == 2    \* most *.parquet files in the input directory
MaxRows == 2     \* most rows in a table

(***************************************************************************)
(* Python values.                                                          *)
(***************************************************************************)
None == [t |-> "NoneType"]
PyInt(n) == [t |-> "int", v |-> n]
PyStr(s) == [t |-> "str", v |-> s]
PyBool(b) == [t |-> "bool", v |-> b]
PyDatetime(s) == [t |-> "datetime", v |-> s]
PyList(s) == [t |-> "list", v |-> s]
PyTuple(s) == [t |-> "tuple", v |-> s]
\* a dict is its items in insertion order, keys pairwise different
PyDict(s) == [t |-> "dict", v |-> s]

Raise(exc, msg) == [t |-> "raise", exc |-> exc, msg |-> msg]
IsRaise(x) == x.t = "raise"

\* the first exception raised while a sequence is built left to right
HasRaise(s) == \E k \in 1..Len(s) : IsRaise(s[k])
FirstRaise(s) ==
    s[CHOOSE k \in 1..Len(s) : IsRaise(s[k]) /\ \A j \in 1..(k - 1) : ~IsRaise(s[j])]

RECURSIVE Hashable(_)
Hashable(x) ==
    CASE x.t \in {"list", "dict"} -> FALSE
      [] x.t = "tuple" -> \A k \in 1..Len(x.v) : Hashable(x.v[k])
      [] OTHER -> TRUE

\* faulty variant: an existing key keeps its first value
DictSet_KeepFirst(d, k, v) ==
    IF \E n \in 1..Len(d) : d[n][1] = k THEN d ELSE Append(d, <<k, v>>)

\* d[k] = v on a dict's item sequence: an equal key keeps its place and its
\* key object and takes the new value, a new key is appended
DictSet(d, k, v) ==
    IF \E n \in 1..Len(d) : d[n][1] = k
    THEN [n \in 1..Len(d) |-> IF d[n][1] = k THEN <<d[n][1], v>> ELSE d[n]]
    ELSE Append(d, <<k, v>>)

(***************************************************************************)
(* PyArrow values.                                                         *)
(***************************************************************************)
\* the subclasses of pa.Scalar, by class name
ScalarTypes ==
    {"NullScalar", "Int64Scalar", "StringScalar", "TimestampScalar",
     "ListScalar", "StructScalar", "MapScalar"}
SNull == [t |-> "NullScalar", v |-> <<>>]
SInt(n) == [t |-> "Int64Scalar", v |-> n]
SStr(s) == [t |-> "StringScalar", v |-> s]
STimestamp(s) == [t |-> "TimestampScalar", v |-> s]
SList(s) == [t |-> "ListScalar", v |-> s]
SStruct(s) == [t |-> "StructScalar", v |-> s]
SMap(s) == [t |-> "MapScalar", v |-> s]
Array(s) == [t |-> "Array", v |-> s]
ListArray(s) == [t |-> "ListArray", v |-> s]
MapArray(ks, its) == [t |-> "MapArray", keys |-> ks, items |-> its]
StructArray(fs) == [t |-> "StructArray", fields |-> fs]

\* a timestamp beyond the range of datetime
OutOfRange == "out of range"

\* Scalar.as_py(): a null is None, a list a list, a struct a dict keyed by the
\* field names, a map a list of (key, value) tuples, a timestamp a datetime
\* or, out of datetime's range, an error
RECURSIVE as_py(_)
as_py(s) ==
    CASE s.t = "NullScalar" -> None
      [] s.t = "Int64Scalar" -> PyInt(s.v)
      [] s.t = "StringScalar" -> PyStr(s.v)
      [] s.t = "TimestampScalar" ->
            IF s.v = OutOfRange THEN Raise("ValueError", "year out of range")
            ELSE PyDatetime(s.v)
      [] s.t = "ListScalar" ->
            LET xs == [k \in 1..Len(s.v) |-> as_py(s.v[k])]
            IN  IF HasRaise(xs) THEN FirstRaise(xs) ELSE PyList(xs)
      [] s.t = "StructScalar" ->
            LET xs == [k \in 1..Len(s.v) |-> as_py(s.v[k][2])]
            IN  IF HasRaise(xs) THEN FirstRaise(xs)
                ELSE PyDict([k \in 1..Len(s.v) |-> <<PyStr(s.v[k][1]), xs[k]>>])
      [] s.t = "MapScalar" ->
            LET ks == [k \in 1..Len(s.v) |-> as_py(s.v[k][1])]
                vs == [k \in 1..Len(s.v) |-> as_py(s.v[k][2])]
                ps == [k \in 1..Len(s.v) |->
                         IF IsRaise(ks[k]) THEN ks[k]
                         ELSE IF IsRaise(vs[k]) THEN vs[k]
                         ELSE PyTuple(<<ks[k], vs[k]>>)]
            IN  IF HasRaise(ps) THEN FirstRaise(ps) ELSE PyList(ps)

\* Array.to_pylist(): as_py() of every element
to_pylist(arr) ==
    LET xs == [k \in 1..Len(arr) |-> as_py(arr[k])]
    IN  IF HasRaise(xs) THEN FirstRaise(xs) ELSE PyList(xs)

(***************************************************************************)
(* convert_arrow_value_to_python                                           *)
(***************************************************************************)
RECURSIVE convert_arrow_value_to_python(_)
RECURSIVE MapArrayLoop(_, _, _, _)
RECURSIVE StructArrayLoop(_, _, _)

\* faulty variant: None items are filtered out of the list
ConvertItems_SkipNone(xs) ==
    LET ys == [k \in 1..Len(xs) |-> convert_arrow_value_to_python(xs[k])]
    IN  IF HasRaise(ys) THEN FirstRaise(ys)
        ELSE PyList(SelectSeq(ys, LAMBDA y : y # None))

ConvertItems(xs) ==
    LET ys == [k \in 1..Len(xs) |-> convert_arrow_value_to_python(xs[k])]
    IN  IF HasRaise(ys) THEN FirstRaise(ys) ELSE PyList(ys)

\* for i in range(len(keys)): the pair is skipped when keys[i] is None; the
\* right-hand side items[i] is evaluated before the key is hashed
MapArrayLoop(keys, items, n, res) ==
    IF n > Len(keys) THEN PyDict(res)
    ELSE IF keys[n] = None THEN MapArrayLoop(keys, items, n + 1, res)
    ELSE IF n > Len(items) THEN Raise("IndexError", "list index out of range")
    ELSE LET v == convert_arrow_value_to_python(items[n])
             k == convert_arrow_value_to_python(keys[n])
         IN  IF IsRaise(v) THEN v
             ELSE IF IsRaise(k) THEN k
             ELSE IF ~Hashable(k) THEN Raise("TypeError", "unhashable type")
             ELSE MapArrayLoop(keys, items, n + 1, DictSet(res, k, v))

\* faulty variant: key and item sequences of different lengths are rejected
ConvertMapArray_Checked(m) ==
    LET keys == to_pylist(m.keys)
        items == to_pylist(m.items)
    IN  IF IsRaise(keys) THEN keys
        ELSE IF IsRaise(items) THEN items
        ELSE IF Len(keys.v) # Len(items.v)
        THEN Raise("InvariantViolation", "map keys and items differ in length")
        ELSE MapArrayLoop(keys.v, items.v, 1, <<>>)

ConvertMapArray(m) ==
    LET keys == to_pylist(m.keys)
        items == to_pylist(m.items)
    IN  IF IsRaise(keys) THEN keys
        ELSE IF IsRaise(items) THEN items
        ELSE MapArrayLoop(keys.v, items.v, 1, <<>>)

\* faulty variant: a field whose value is None is kept, mapped to None
StructArrayLoop_KeepNone(fields, n, res) ==
    IF n > Len(fields) THEN PyDict(res)
    ELSE LET v == convert_arrow_value_to_python(fields[n][2])
         IN  IF IsRaise(v) THEN v
             ELSE StructArrayLoop(fields, n + 1, DictSet(res, PyStr(fields[n][1]), v))

\* for field in value.type: a field whose value is None is left out
StructArrayLoop(fields, n, res) ==
    IF n > Len(fields) THEN PyDict(res)
    ELSE LET field_value == fields[n][2]
         IN  IF field_value # None
             THEN LET v == convert_arrow_value_to_python(field_value)
                  IN  IF IsRaise(v) THEN v
                      ELSE StructArrayLoop(fields, n + 1,
                                           DictSet(res, PyStr(fields[n][1]), v))
             ELSE StructArrayLoop(fields, n + 1, res)

ConvertStructArray(s) == StructArrayLoop(s.fields, 1, <<>>)

ConvertListArray(a) ==
    LET l == to_pylist(a.v)
    IN  IF IsRaise(l) THEN l ELSE ConvertItems(l.v)

\* faulty variant: an Array of one element is converted to a list of one element
ConvertArray_AlwaysList(a) ==
    IF Len(a.v) = 0 THEN None
    ELSE LET ys == [k \in 1..Len(a.v) |->
                      LET x == as_py(a.v[k])
                      IN  IF IsRaise(x) THEN x ELSE convert_arrow_value_to_python(x)]
         IN  IF HasRaise(ys) THEN FirstRaise(ys) ELSE PyList(ys)

\* a plain Array: empty is None, one element is that element, more are a list
ConvertArray(a) ==
    IF Len(a.v) = 0 THEN None
    ELSE IF Len(a.v) = 1
    THEN LET x == as_py(a.v[1])
         IN  IF IsRaise(x) THEN x ELSE convert_arrow_value_to_python(x)
    ELSE LET ys == [k \in 1..Len(a.v) |->
                      LET x == as_py(a.v[k])
                      IN  IF IsRaise(x) THEN x ELSE convert_arrow_value_to_python(x)]
         IN  IF HasRaise(ys) THEN FirstRaise(ys) ELSE PyList(ys)

ConvertScalar(s) ==
    LET x == as_py(s)
    IN  IF IsRaise(x) THEN x ELSE convert_arrow_value_to_python(x)

\* {k: convert(v) for k, v in value.items()}: the keys are kept as they are
ConvertDict(d) ==
    LET ys == [k \in 1..Len(d.v) |-> convert_arrow_value_to_python(d.v[k][2])]
    IN  IF HasRaise(ys) THEN FirstRaise(ys)
        ELSE PyDict([k \in 1..Len(d.v) |-> <<d.v[k][1], ys[k]>>])

convert_arrow_value_to_python(x) ==
    CASE x = None -> None
      [] x.t = "MapArray" -> ConvertMapArray(x)
      [] x.t = "ListArray" -> ConvertListArray(x)
      [] x.t = "StructArray" -> ConvertStructArray(x)
      [] x.t = "Array" -> ConvertArray(x)
      [] x.t \in ScalarTypes -> ConvertScalar(x)
      [] x.t = "dict" -> ConvertDict(x)
      [] x.t = "list" -> ConvertItems(x.v)
      [] OTHER -> x

(***************************************************************************)
(* json.dumps(obj, ensure_ascii=False, default=str)                        *)
(* The texts of the model hold no character that JSON escapes.             *)
(***************************************************************************)
RECURSIVE Join(_, _)
Join(strs, sep) ==
    IF Len(strs) = 0 THEN ""
    ELSE IF Len(strs) = 1 THEN strs[1]
    ELSE strs[1] \o sep \o Join(Tail(strs), sep)

\* str(o), the default= hook
str(o) == o.v

\* a dict key: str as it is, int, bool and None by their JSON text; any
\* other key is a TypeError (default= is not applied to keys)
KeyOk(k) == k.t \in {"str", "int", "bool", "NoneType"}
KeyText(k) ==
    CASE k.t = "str" -> k.v
      [] k.t = "int" -> ToString(k.v)
      [] k.t = "bool" -> IF k.v THEN "true" ELSE "false"
      [] k.t = "NoneType" -> "null"

RECURSIVE json_dumps(_)
json_dumps(o) ==
    CASE o.t = "NoneType" -> PyStr("null")
      [] o.t = "bool" -> PyStr(IF o.v THEN "true" ELSE "false")
      [] o.t = "int" -> PyStr(ToString(o.v))
      [] o.t = "str" -> PyStr("\"" \o o.v \o "\"")
      [] o.t \in {"list", "tuple"} ->
            LET xs == [k \in 1..Len(o.v) |-> json_dumps(o.v[k])]
            IN  IF HasRaise(xs) THEN FirstRaise(xs)
                ELSE PyStr("[" \o Join([k \in 1..Len(xs) |-> xs[k].v], ", ") \o "]")
      [] o.t = "dict" ->
            LET xs == [k \in 1..Len(o.v) |->
                         IF ~KeyOk(o.v[k][1])
                         THEN Raise("TypeError", "keys must be str, int, float, bool or None")
                         ELSE json_dumps(o.v[k][2])]
            IN  IF HasRaise(xs) THEN FirstRaise(xs)
                ELSE PyStr("{" \o Join([k \in 1..Len(xs) |->
                                 "\"" \o KeyText(o.v[k][1]) \o "\": " \o xs[k].v], ", ")
                               \o "}")
      [] OTHER -> json_dumps(PyStr(str(o)))

(***************************************************************************)
(* The stand-alone converter run: one call on one argument, then the       *)
(* serialization of what it returned.                                      *)
(***************************************************************************)
\* The arguments of the stand-alone run are every shape a branch of the
\* converter accepts.  The converter reads the keys and the items of a
\* MapArray by two separate calls and compares no lengths, and it tests the
\* value of a StructArray field against None, so the key and item sequences
\* are enumerated independently and a field value may be None; keys of
\* different types in one map (1 and "1") are enumerated for the same reason.
SeqsUpTo(S, n) == UNION {[1..k -> S] : k \in 0..n}

FieldNames == <<"a", "b", "c", "d", "e">>

LeafScalars == {SNull, SInt(1), SStr("1"), STimestamp(OutOfRange)}
NestedScalars ==
    {SList(<<>>), SList(<<SNull, SInt(1)>>),
     SStruct(<< <<"a", SNull>>, <<"b", SInt(2)>> >>),
     SMap(<<>>), SMap(<< <<SInt(1), SNull>>, <<SInt(2), SStr("x")>> >>)}
ElemScalars == LeafScalars \cup NestedScalars
KeyScalars == {SNull, SInt(1), SStr("1"), SList(<<>>)}
ItemScalars == {SNull, SStr("x"), SList(<<SNull, SInt(1)>>), STimestamp(OutOfRange)}
ListScalars == {SNull, SList(<<>>), SList(<<SNull, SInt(1)>>)}

Arrays == {Array(s) : s \in SeqsUpTo(ElemScalars, MaxLen)}
MapArrays ==
    {MapArray(ks, its) : ks \in SeqsUpTo(KeyScalars, MaxLen),
                         its \in SeqsUpTo(ItemScalars, MaxLen)}
ListArrays == {ListArray(s) : s \in SeqsUpTo(ListScalars, MaxLen)}
FieldValues ==
    {None, Array(<<>>), Array(<<SNull>>), Array(<<SInt(1)>>),
     Array(<<SInt(1), SNull>>), Array(<<STimestamp(OutOfRange)>>),
     MapArray(<<SInt(1)>>, <<SNull>>),
     StructArray(<< <<"x", None>>, <<"y", Array(<<SNull>>)>> >>)}
StructArrays ==
    {StructArray([k \in 1..Len(f) |-> <<FieldNames[k], f[k]>>]) :
        f \in SeqsUpTo(FieldValues, MaxLen)}
Scalars ==
    ElemScalars \cup {SList(s) : s \in SeqsUpTo(ElemScalars, MaxLen)}
NativeValues ==
    {None, PyInt(1), PyStr("x"), PyBool(TRUE), PyTuple(<<PyInt(1), None>>),
     PyList(<<None, PyInt(1)>>), PyDict(<< <<PyStr("a"), None>> >>),
     PyList(<<PyTuple(<<PyInt(1), None>>)>>),
     PyDict(<< <<PyTuple(<<PyInt(1)>>), None>> >>)}
Natives ==
    NativeValues
    \cup {PyList(s) : s \in SeqsUpTo(NativeValues, MaxLen)}
    \cup {PyDict([k \in 1..Len(s) |-> <<PyStr(FieldNames[k]), s[k]>>]) :
             s \in SeqsUpTo(NativeValues, MaxLen)}

NormInputs ==
    Arrays \cup MapArrays \cup ListArrays \cup StructArrays \cup Scalars \cup Natives

DriverIdle ==
    /\ pc = "idle"
    /\ input_dir = {}
    /\ parquet_files = <<>>
    /\ idx = 0
    /\ table = None
    /\ i = 0
    /\ sinks = <<>>
    /\ rows = 0
    /\ total_rows = 0
    /\ stdout = <<>>
    /\ stderr = <<>>

NormInit ==
    /\ value \in NormInputs
    /\ result = None
    /\ json_line = None
    /\ npc = "call"
    /\ DriverIdle

Convert ==
    /\ npc = "call"
    /\ result' = convert_arrow_value_to_python(value)
    /\ npc' = IF IsRaise(result') THEN "raised" ELSE "returned"
    /\ UNCHANGED <<value, json_line, dvars>>

Dumps ==
    /\ npc = "returned"
    /\ json_line' = json_dumps(result)
    /\ npc' = "dumped"
    /\ UNCHANGED <<value, result, dvars>>

NormNext == Convert \/ Dumps

NormSpec == NormInit /\ [][NormNext]_vars

(***************************************************************************)
(* The files.  File k is f<k>.parquet and its output f<k>.jsonl; the       *)
(* names sort as the numbers do.  The content of a parquet file is known   *)
(* when it is read.  A cell table[col_name][i] is a pa.Scalar; the column  *)
(* names of a table are distinct.  An output file may be left over from an *)
(* earlier run.                                                            *)
(***************************************************************************)
ParquetName(k) == "f" \o ToString(k) \o ".parquet"
JsonlName(k) == "f" \o ToString(k) \o ".jsonl"

Absent == [exists |-> FALSE, text |-> ""]
Stale == [exists |-> TRUE, text |-> "stale\n"]

Table(cols, rs) == [readable |-> TRUE, column_names |-> cols, rows |-> rs]
Unreadable == [readable |-> FALSE, column_names |-> <<>>, rows |-> <<>>]

InRange == "2020-01-01 00:00:00"
TagRows ==
    {<<SInt(1), SMap(<< <<SInt(10), SStr("x")>>, <<SInt(20), SStr("y")>> >>)>>,
     <<SInt(2), SMap(<<>>)>>}
InfoRows ==
    {<<STimestamp(InRange), SStruct(<< <<"a", SNull>>, <<"b", STimestamp(InRange)>> >>)>>,
     <<STimestamp(OutOfRange), SStruct(<< <<"a", SInt(1)>>, <<"b", STimestamp(InRange)>> >>)>>,
     <<STimestamp(InRange), SStruct(<< <<"a", SInt(1)>>, <<"b", STimestamp(OutOfRange)>> >>)>>}
Tables ==
    {Unreadable}
    \cup {Table(<<"id", "tags">>, rs) : rs \in SeqsUpTo(TagRows, MaxRows)}
    \cup {Table(<<"ts", "info">>, rs) : rs \in SeqsUpTo(InfoRows, MaxRows)}

\* sorted(input_dir.glob("*.parquet"))
RECURSIVE sorted(_)
sorted(S) ==
    IF S = {} THEN <<>>
    ELSE LET m == CHOOSE x \in S : \A y \in S : x <= y
         IN  <<m>> \o sorted(S \ {m})

(***************************************************************************)
(* convert_parquet_to_jsonl, one row of its loop                           *)
(***************************************************************************)
\* for col_name in column_names: row_dict[col_name] = convert(table[col_name][i])
RECURSIVE RowDictLoop(_, _, _, _)
RowDictLoop(tbl, r, c, row_dict) ==
    IF c > Len(tbl.column_names) THEN PyDict(row_dict)
    ELSE LET python_value == convert_arrow_value_to_python(tbl.rows[r + 1][c])
         IN  IF IsRaise(python_value) THEN python_value
             ELSE RowDictLoop(tbl, r, c + 1,
                              DictSet(row_dict, PyStr(tbl.column_names[c]), python_value))

RowDict(tbl, r) == RowDictLoop(tbl, r, 1, <<>>)

\* faulty variant: the record separator is forgotten
WriteText_NoNewline(line) == line

\* json_line + '\n', the text one f.write() appends
WriteText(line) == IF IsRaise(line) THEN line ELSE PyStr(line.v \o "\n")

\* json.dumps(row_dict, ...) of the row's dict, unless building it raised
DumpRow(row_dict) ==
    IF IsRaise(row_dict) THEN row_dict ELSE WriteText(json_dumps(row_dict))

\* what one pass of the row loop writes for row r, or the exception it raises
RowRecord(tbl, r) == DumpRow(RowDict(tbl, r))

ProgressEvery == 1000

\* faulty variant: the handler logs the file and drops the exception
LogError_FileOnly(k, e) ==
    [file |-> ParquetName(k), error |-> "", traceback |-> <<>>]

\* the except clause of the driver: the file and str(e) on stderr, then the
\* traceback of e
LogError(k, e) ==
    [file |-> ParquetName(k), error |-> e.msg, traceback |-> <<e.exc, e.msg>>]

(***************************************************************************)
(* convert_all_parquet_files                                               *)
(***************************************************************************)
NormIdle ==
    /\ value = None
    /\ result = None
    /\ json_line = None
    /\ npc = "idle"

Init ==
    /\ NormIdle
    /\ pc = "start"
    /\ input_dir \in SUBSET (1..MaxFiles)
    /\ parquet_files = <<>>
    /\ idx = 0
    /\ table = None
    /\ i = 0
    /\ sinks \in [1..MaxFiles -> {Absent, Stale}]
    /\ rows = 0
    /\ total_rows = 0
    /\ stdout = <<>>
    /\ stderr = <<>>

\* lines 116-131: the files are listed and sorted; none is the end of the run
Start ==
    /\ pc = "start"
    /\ parquet_files' = sorted(input_dir)
    /\ IF Len(parquet_files') = 0
       THEN /\ stdout' = Append(stdout, "No parquet files found in input_dir")
            /\ pc' = "done"
            /\ idx' = idx
       ELSE /\ stdout' = Append(stdout, "Found " \o ToString(Len(parquet_files'))
                                         \o " parquet file(s) to convert.")
            /\ pc' = "files"
            /\ idx' = 1
    /\ total_rows' = 0
    /\ UNCHANGED <<nvars, input_dir, table, i, sinks, rows, stderr>>

\* line 75
ConvertingLine(k) == "Converting " \o ParquetName(k) \o " -> " \o JsonlName(k)

\* the next file of the loop: convert_parquet_to_jsonl up to its row loop.
\* A file that cannot be read raises before the output is opened; the
\* driver logs it and goes on.
OpenFile ==
    /\ pc = "files"
    /\ idx <= Len(parquet_files)
    /\ \E tbl \in Tables :
        LET k == parquet_files[idx]
        IN  /\ stdout' = Append(stdout, ConvertingLine(k))
            /\ table' = tbl
            /\ IF ~tbl.readable
               THEN /\ stderr' = Append(stderr,
                          LogError(k, Raise("ArrowInvalid", "not a parquet file")))
                    /\ idx' = idx + 1
                    /\ UNCHANGED <<pc, i, sinks>>
               ELSE /\ sinks' = [sinks EXCEPT ![k] = [exists |-> TRUE, text |-> ""]]
                    /\ i' = 0
                    /\ pc' = "rows"
                    /\ UNCHANGED <<idx, stderr>>
    /\ UNCHANGED <<nvars, input_dir, parquet_files, rows, total_rows>>

\* faulty variant: an exception ends the run instead of the file
RowStep_Abort(k, rec) ==
    IF IsRaise(rec)
    THEN /\ stderr' = Append(stderr, LogError(k, rec))
         /\ pc' = "done"
         /\ UNCHANGED <<idx, i, sinks, stdout>>
    ELSE /\ sinks' = [sinks EXCEPT ![k].text = @ \o rec.v]
         /\ stdout' = stdout
         /\ i' = i + 1
         /\ UNCHANGED <<idx, pc, stderr>>

\* faulty variant: an exception empties the output written so far
RowStep_Rollback(k, rec) ==
    IF IsRaise(rec)
    THEN /\ stderr' = Append(stderr, LogError(k, rec))
         /\ idx' = idx + 1
         /\ pc' = "files"
         /\ sinks' = [sinks EXCEPT ![k].text = ""]
         /\ UNCHANGED <<i, stdout>>
    ELSE /\ sinks' = [sinks EXCEPT ![k].text = @ \o rec.v]
         /\ stdout' = stdout
         /\ i' = i + 1
         /\ UNCHANGED <<idx, pc, stderr>>

\* one pass of "for i in range(num_rows)": the row is converted, serialized
\* and written, or the exception leaves the function and the driver logs it
RowStep(k, rec) ==
    IF IsRaise(rec)
    THEN /\ stderr' = Append(stderr, LogError(k, rec))
         /\ idx' = idx + 1
         /\ pc' = "files"
         /\ UNCHANGED <<i, sinks, stdout>>
    ELSE /\ sinks' = [sinks EXCEPT ![k].text = @ \o rec.v]
         /\ stdout' = IF (i + 1) % ProgressEvery = 0
                      THEN Append(stdout, "  Processed " \o ToString(i + 1) \o "/"
                                          \o ToString(Len(table.rows)) \o " rows...")
                      ELSE stdout
         /\ i' = i + 1
         /\ UNCHANGED <<idx, pc, stderr>>

ProcessRow ==
    /\ pc = "rows"
    /\ i < Len(table.rows)
    /\ RowStep(parquet_files[idx], RowRecord(table, i))
    /\ UNCHANGED <<nvars, input_dir, parquet_files, table, rows, total_rows>>

\* the row loop is over: the file is closed, num_rows returned and added
CloseFile ==
    /\ pc = "rows"
    /\ i = Len(table.rows)
    /\ stdout' = Append(stdout, "\n  Completed: " \o ToString(Len(table.rows))
                                \o " rows converted")
    /\ rows' = Len(table.rows)
    /\ total_rows' = total_rows + rows'
    /\ idx' = idx + 1
    /\ pc' = "files"
    /\ UNCHANGED <<nvars, input_dir, parquet_files, table, i, sinks, stderr>>

\* line 143, after the last file
Finish ==
    /\ pc = "files"
    /\ idx > Len(parquet_files)
    /\ stdout' = Append(stdout, "\nTotal: " \o ToString(total_rows) \o " rows converted from "
                                \o ToString(Len(parquet_files)) \o " files")
    /\ pc' = "done"
    /\ UNCHANGED <<nvars, input_dir, parquet_files, idx, table, i, sinks, rows, total_rows,
                   stderr>>

Next == Start \/ OpenFile \/ ProcessRow \/ CloseFile \/ Finish

Spec == Init /\ [][Next]_vars

(***************************************************************************)
(* Properties of the batch run (specification Spec)                        *)
(***************************************************************************)
\* file k has an entry on stderr
Failed(k) == \E n \in 1..Len(stderr) : stderr[n].file = ParquetName(k)
\* the stderr entry of file k
ErrorOf(k) == stderr[CHOOSE n \in 1..Len(stderr) : stderr[n].file = ParquetName(k)]
\* the file the driver has just left, while table and i are still its own
LastFile == parquet_files[idx - 1]
JustLeft == pc \in {"files", "done"} /\ idx > 1 /\ table.readable
JustReturned == JustLeft /\ ~Failed(LastFile)
JustFailedInRow == JustLeft /\ Failed(LastFile)

\* the "Converting ..." lines of stdout, one per call of convert_parquet_to_jsonl
Attempted ==
    SelectSeq(stdout, LAMBDA l : l \in {ConvertingLine(k) : k \in 1..MaxFiles})

IsPrefix(s, t) == Len(s) <= Len(t) /\ \A n \in 1..Len(s) : s[n] = t[n]

\* the record the specification asks for row r (0-based): the mapping of the
\* column names, in column order, to the converted cells, serialized, and "\n"
CellsConvert(tbl, r) ==
    \A c \in 1..Len(tbl.column_names) :
        ~IsRaise(convert_arrow_value_to_python(tbl.rows[r + 1][c]))
ExpectedRecord(tbl, r) ==
    json_dumps(PyDict([c \in 1..Len(tbl.column_names) |->
        <<PyStr(tbl.column_names[c]),
          convert_arrow_value_to_python(tbl.rows[r + 1][c])>>])).v \o "\n"
RECURSIVE ExpectedText(_, _)
ExpectedText(tbl, n) ==
    IF n = 0 THEN "" ELSE ExpectedText(tbl, n - 1) \o ExpectedRecord(tbl, n - 1)

\* C1: whatever files fail, the driver attempts the files in sorted order,
\* a failure is followed by the next file, and the run is over only when
\* every file has been attempted; until then the driver is at a step of its
\* loop that has a successor.
C1_BatchNeverAborts ==
    /\ IsPrefix(Attempted, [n \in 1..Len(sorted(input_dir)) |->
                               ConvertingLine(sorted(input_dir)[n])])
    /\ pc = "done" => Len(Attempted) = Cardinality(input_dir)
    /\ pc # "done" =>
          \/ pc = "start"
          \/ pc = "files" /\ idx \in 1..(Len(parquet_files) + 1)
          \/ pc = "rows" /\ idx \in 1..Len(parquet_files) /\ i <= Len(table.rows)
    /\ \A n \in 1..Len(stderr) :
          \E m \in 1..Len(Attempted) : stderr[n].file = ParquetName(sorted(input_dir)[m])

\* C1 witness: the run is over, its first file failed and a later file was
\* converted
C1_Witness ==
    /\ pc = "done"
    /\ Len(parquet_files) >= 2
    /\ Failed(parquet_files[1])
    /\ ~Failed(parquet_files[2])
    /\ total_rows > 0

\* C2: while the rows convert, the sink holds the records of the rows done so
\* far, in row order, each followed by one newline and nothing else; when the
\* call returns, the sink holds the N records and N is returned.
C2_RecordsInRowOrder ==
    /\ pc = "rows" =>
          sinks[parquet_files[idx]] = [exists |-> TRUE, text |-> ExpectedText(table, i)]
    /\ JustReturned =>
          /\ sinks[LastFile] = [exists |-> TRUE, text |-> ExpectedText(table, Len(table.rows))]
          /\ rows = Len(table.rows)
    /\ (JustLeft /\ \A r \in 0..(Len(table.rows) - 1) : CellsConvert(table, r)) =>
          JustReturned

\* C2 witness: a file of at least two rows has been converted; its cells go
\* through the struct, null and default=str paths
C2_Witness ==
    /\ JustReturned
    /\ Len(table.rows) >= 2
    /\ table.column_names = <<"ts", "info">>
    /\ total_rows = Len(table.rows)

\* C3: when a cell of row r fails, the file is left with the records of rows
\* 0..r-1, complete, and nothing of row r or of a later row
C3_PartialOutputKept ==
    JustFailedInRow =>
        /\ i < Len(table.rows)
        /\ ~CellsConvert(table, i)
        /\ \A r \in 0..(i - 1) : CellsConvert(table, r)
        /\ sinks[LastFile] = [exists |-> TRUE, text |-> ExpectedText(table, i)]

\* C3 witness: the second row of a file failed after the first was written
C3_Witness ==
    /\ JustFailedInRow
    /\ i = 1
    /\ Len(table.rows) >= 2
    /\ sinks[LastFile].text # ""

\* the first column of row r whose cell does not convert
FailingColumn(tbl, r) ==
    CHOOSE c \in 1..Len(tbl.column_names) :
        /\ IsRaise(convert_arrow_value_to_python(tbl.rows[r + 1][c]))
        /\ \A b \in 1..(c - 1) : ~IsRaise(convert_arrow_value_to_python(tbl.rows[r + 1][b]))

\* C6 as stated: the error logged for a cell that failed at row r, column c
\* names the row index r and the column name c
C6_ErrorNamesRowAndColumn ==
    JustFailedInRow =>
        LET e == ErrorOf(LastFile)
        IN  /\ {"row", "column"} \subseteq DOMAIN e
            /\ e.row = i
            /\ e.column = table.column_names[FailingColumn(table, i)]

\* C6 amended: the error that reaches the driver is the exception the failing
\* cell raised, as it was raised; the driver logs the file, the exception's
\* own message and its traceback, and nothing that names the row or column
C6_ErrorIsTheCellsException ==
    JustFailedInRow =>
        LET e == ErrorOf(LastFile)
            x == convert_arrow_value_to_python(table.rows[i + 1][FailingColumn(table, i)])
        IN  /\ DOMAIN e = {"file", "error", "traceback"}
            /\ e.file = ParquetName(LastFile)
            /\ e.error = x.msg
            /\ e.traceback = <<x.exc, x.msg>>

\* C6 witness: the second column of the second row of a file failed
C6_Witness ==
    /\ JustFailedInRow
    /\ i = 1
    /\ FailingColumn(table, i) = 2

\* the table of the end-to-end scenario: [id: int, tags: map<int, string>],
\* rows (1, {10: "x", 20: "y"}) and (2, {})
ScenarioTable ==
    Table(<<"id", "tags">>,
          << <<SInt(1), SMap(<< <<SInt(10), SStr("x")>>, <<SInt(20), SStr("y")>> >>)>>,
             <<SInt(2), SMap(<<>>)>> >>)

\* C10 as stated: the scenario's file is converted to the two lines
\* {"id": 1, "tags": {"10": "x", "20": "y"}} and {"id": 2, "tags": {}}
C10_MapCellIsJsonObject ==
    (JustReturned /\ table = ScenarioTable) =>
        sinks[LastFile].text =
            "{\"id\": 1, \"tags\": {\"10\": \"x\", \"20\": \"y\"}}\n"
            \o "{\"id\": 2, \"tags\": {}}\n"

\* what the scenario's file is converted to: the map cells are arrays of
\* [key, value] pairs, the empty map an empty array
ScenarioOutput ==
    (JustReturned /\ table = ScenarioTable) =>
        sinks[LastFile].text =
            "{\"id\": 1, \"tags\": [[10, \"x\"], [20, \"y\"]]}\n"
            \o "{\"id\": 2, \"tags\": []}\n"

(***************************************************************************)
(* Properties of convert_arrow_value_to_python (specification NormSpec)    *)
(***************************************************************************)
Called == npc # "call"
Returned == npc \in {"returned", "dumped"}

\* the p-th smallest member of a set of indices
NthIndex(S, p) == CHOOSE n \in S : Cardinality({m \in S : m < n}) = p - 1

\* the elements of a MapArray convert and its keys can be dict keys
MapElementsFine(m) ==
    /\ ~IsRaise(to_pylist(m.keys))
    /\ ~IsRaise(to_pylist(m.items))
    /\ \A n \in 1..Len(m.keys) : Hashable(as_py(m.keys[n]))

RECURSIVE TextKeyed(_, _, _, _)
TextKeyed(keys, items, n, res) ==
    IF n > Len(keys) THEN PyDict(res)
    ELSE IF keys[n] = None THEN TextKeyed(keys, items, n + 1, res)
    ELSE TextKeyed(keys, items, n + 1,
                   DictSet(res, PyStr(KeyText(convert_arrow_value_to_python(keys[n]))),
                           convert_arrow_value_to_python(items[n])))

C8_ColumnUnwrapped ==
    (Called /\ value.t = "Array") =>
        LET ys == [k \in 1..Len(value.v) |-> convert_arrow_value_to_python(value.v[k])]
        IN  CASE Len(value.v) = 0 -> result = None
              [] Len(value.v) = 1 -> result = ys[1]
              [] OTHER -> ~HasRaise(ys) => result = PyList(ys)

\* C8 witness: an Array of two elements, a null and a list, was converted
C8_Witness ==
    /\ npc = "returned"
    /\ value = Array(<<SNull, SList(<<SNull, SInt(1)>>)>>)
    /\ result = PyList(<<None, PyList(<<None, PyInt(1)>>)>>)

\* Nulls and siblings, input against output, at every depth.  A null input
\* is None; a list-like input of n elements is a list of n; a struct-like
\* input of n fields is a dict of n entries; a map scalar of n pairs is a list
\* of n pairs; each child is compared in turn.  For a MapArray and a
\* StructArray, "strict" is the rule as C9 states it (every pair but those of
\* a null key, every field); otherwise it is the rule the code follows (one
\* entry per different non-null key with the value of its last pair, and the
\* fields whose value is not None).
RECURSIVE NullsKept(_, _, _)
ListKept(xs, out, strict) ==
    /\ out.t = "list"
    /\ Len(out.v) = Len(xs)
    /\ \A k \in 1..Len(xs) : NullsKept(xs[k], out.v[k], strict)
DictKept(xs, out, strict) ==
    /\ out.t = "dict"
    /\ Len(out.v) = Len(xs)
    /\ \A k \in 1..Len(xs) : NullsKept(xs[k][2], out.v[k][2], strict)
MapArrayKept(m, out, strict) ==
    LET live == {n \in 1..Len(m.keys) : m.keys[n] # SNull}
        firsts == {n \in live : \A j \in live : j < n => m.keys[j] # m.keys[n]}
        shown == IF strict THEN live ELSE firsts
    IN  /\ out.t = "dict"
        /\ Len(out.v) = Cardinality(shown)
        /\ \A p \in 1..Len(out.v) :
              LET n == NthIndex(shown, p)
                  last == CHOOSE j \in live :
                             /\ m.keys[j] = m.keys[n]
                             /\ \A h \in live : m.keys[h] = m.keys[n] => h <= j
              IN  NullsKept(m.items[IF strict THEN n ELSE last], out.v[p][2], strict)
NullsKept(x, out, strict) ==
    CASE x \in {None, SNull} -> out = None
      [] x.t \in {"list", "ListScalar", "ListArray"} -> ListKept(x.v, out, strict)
      [] x.t \in {"dict", "StructScalar"} -> DictKept(x.v, out, strict)
      [] x.t = "MapScalar" ->
            /\ out.t = "list"
            /\ Len(out.v) = Len(x.v)
            /\ \A k \in 1..Len(x.v) :
                  /\ out.v[k].t = "tuple"
                  /\ NullsKept(x.v[k][2], out.v[k].v[2], strict)
      [] x.t = "Array" ->
            IF Len(x.v) = 0 THEN out = None
            ELSE IF Len(x.v) = 1 THEN NullsKept(x.v[1], out, strict)
            ELSE ListKept(x.v, out, strict)
      [] x.t = "StructArray" ->
            DictKept(IF strict THEN x.fields
                     ELSE SelectSeq(x.fields, LAMBDA f : f[2] # None), out, strict)
      [] x.t = "MapArray" ->
            Len(x.keys) = Len(x.items) => MapArrayKept(x, out, strict)
      [] OTHER -> TRUE

====
